---- MODULE Spec2Model ----
(***************************************************************************)
(* Filesystem size gathering tasks of blivet (blivet/tasks/fssize.py).     *)
(*                                                                         *)
(* Strings are sequences of one-character strings, so that splitlines,     *)
(* strip, startswith, split and int act on the text as the Python code     *)
(* does.  A Python optional is a sequence of length 0 (None) or 1.         *)
(***************************************************************************)
EXTENDS Integers, Sequences, FiniteSets, TLC

VARIABLES
    task,              \* the class of the task object: one FSSize variant or TmpFSSize
    info,              \* self.fs._current_info (optional string)
    status,            \* self.fs.status
    systemMountpoint,  \* self.fs.systemMountpoint
    appAvailable,      \* TmpFSSize._app.available
    result             \* outcome of the last doTask call on the task object

vars == <<task, info, status, systemMountpoint, appAvailable, result>>

(***************************************************************************)
(* Python values                                                           *)
(***************************************************************************)
None == <<>>
Some(x) == <<x>>
Val(o) == o[1]

\* A message is the sequence of its format and the formatted arguments; the
\* value the readiness properties return when nothing is wrong is falsy.
False == <<>>

Whitespace == {" ", "\t", "\n"}
Digits == {"0", "1", "2", "3", "4", "5", "6", "7", "8", "9"}

DigitVal(c) ==
    CASE c = "0" -> 0 [] c = "1" -> 1 [] c = "2" -> 2 [] c = "3" -> 3
      [] c = "4" -> 4 [] c = "5" -> 5 [] c = "6" -> 6 [] c = "7" -> 7
      [] c = "8" -> 8 [] c = "9" -> 9

\* str.splitlines(): the text up to the first line break is a line, and so
\* on for the rest; a line break at the very end adds no empty line.
RECURSIVE splitlines(_)
splitlines(s) ==
    IF s = <<>> THEN <<>>
    ELSE IF \E i \in 1..Len(s) : s[i] = "\n"
    THEN LET b == CHOOSE i \in 1..Len(s) :
                     s[i] = "\n" /\ \A j \in 1..(i - 1) : s[j] # "\n"
         IN  <<SubSeq(s, 1, b - 1)>> \o splitlines(SubSeq(s, b + 1, Len(s)))
    ELSE <<s>>

RECURSIVE lstrip(_)
lstrip(s) ==
    IF s # <<>> /\ Head(s) \in Whitespace THEN lstrip(Tail(s)) ELSE s

RECURSIVE rstrip(_)
rstrip(s) ==
    IF s # <<>> /\ s[Len(s)] \in Whitespace THEN rstrip(SubSeq(s, 1, Len(s) - 1)) ELSE s

\* str.strip()
strip(s) == rstrip(lstrip(s))

\* str.startswith(prefix)
startswith(s, prefix) ==
    /\ Len(prefix) <= Len(s)
    /\ SubSeq(s, 1, Len(prefix)) = prefix

\* str.split(): the maximal runs of characters that are no whitespace, in
\* order.
RECURSIVE split(_)
split(s) ==
    LET t == lstrip(s)
    IN  IF t = <<>> THEN <<>>
        ELSE LET e == CHOOSE j \in 1..Len(t) :
                         /\ j = Len(t) \/ t[j + 1] \in Whitespace
                         /\ \A l \in 1..j : t[l] \notin Whitespace
             IN  <<SubSeq(t, 1, e)>> \o split(SubSeq(t, e + 1, Len(t)))

\* list.reverse()
reverse(fields) == [i \in 1..Len(fields) |-> fields[Len(fields) + 1 - i]]

\* int(field) succeeds on an optional sign followed by one or more digits.
AllDigits(s) == s # <<>> /\ \A i \in 1..Len(s) : s[i] \in Digits

IsIntLiteral(field) ==
    IF field # <<>> /\ Head(field) \in {"-", "+"}
    THEN AllDigits(Tail(field))
    ELSE AllDigits(field)

RECURSIVE DigitsValue(_)
DigitsValue(s) ==
    IF s = <<>> THEN 0
    ELSE 10 * DigitsValue(SubSeq(s, 1, Len(s) - 1)) + DigitVal(s[Len(s)])

\* int(field), for a field on which it raises no ValueError
int(field) ==
    IF Head(field) = "-" THEN 0 - DigitsValue(Tail(field))
    ELSE IF Head(field) = "+" THEN DigitsValue(Tail(field))
    ELSE DigitsValue(field)

\* "fmt" % arg
Format(fmt, arg) == <<fmt, arg>>

\* a message without arguments
Message(text) == <<text>>

(***************************************************************************)
(* Size (blivet/size.py): a number of bytes                                *)
(***************************************************************************)
KiB == 1024

\* Size(n) for an integer n: n bytes
Size(n) == [bytes |-> n]

\* n * Size
SizeRMul(n, sz) == [bytes |-> n * sz.bytes]

UnitKiB == <<"K", "i", "B">>

\* Size(spec) for a string: a magnitude followed by a unit, surrounding
\* whitespace ignored; anything else is a ValueError (None here).
SizeFromSpec(spec) ==
    LET fields == split(strip(spec))
    IN  IF Len(fields) = 2 /\ IsIntLiteral(fields[1]) /\ fields[2] = UnitKiB
        THEN Some([bytes |-> int(fields[1]) * KiB])
        ELSE None

(***************************************************************************)
(* Tags of the FSSize variants                                             *)
(***************************************************************************)
_tags == <<"count", "size">>

Ext2FSSize_tags ==
    [size  |-> <<"B","l","o","c","k"," ","s","i","z","e",":">>,
     count |-> <<"B","l","o","c","k"," ","c","o","u","n","t",":">>]

JFSSize_tags ==
    [size  |-> <<"P","h","y","s","i","c","a","l"," ","b","l","o","c","k"," ","s","i","z","e",":">>,
     count |-> <<"A","g","g","r","e","g","a","t","e"," ","s","i","z","e",":">>]

NTFSSize_tags ==
    [size  |-> <<"C","l","u","s","t","e","r"," ","S","i","z","e",":">>,
     count |-> <<"V","o","l","u","m","e"," ","S","i","z","e"," ","i","n"," ","C","l","u","s","t","e","r","s",":">>]

ReiserFSSize_tags ==
    [size  |-> <<"B","l","o","c","k","s","i","z","e",":">>,
     count |-> <<"C","o","u","n","t"," ","o","f"," ","b","l","o","c","k","s"," ","o","n"," ","t","h","e"," ","d","e","v","i","c","e",":">>]

XFSSize_tags ==
    [size  |-> <<"b","l","o","c","k","s","i","z","e"," ","=">>,
     count |-> <<"d","b","l","o","c","k","s"," ","=">>]

FSSizeClasses == {"Ext2FSSize", "JFSSize", "NTFSSize", "ReiserFSSize", "XFSSize"}

\* self.tags
tags(cls) ==
    CASE cls = "Ext2FSSize" -> Ext2FSSize_tags
      [] cls = "JFSSize" -> JFSSize_tags
      [] cls = "NTFSSize" -> NTFSSize_tags
      [] cls = "ReiserFSSize" -> ReiserFSSize_tags
      [] cls = "XFSSize" -> XFSSize_tags

(***************************************************************************)
(* Task (blivet/tasks/task.py)                                             *)
(***************************************************************************)
\* The first non-empty message among unavailable, unready, unable, in that
\* order; False when there is none.
impossible(unavailable, unready, unable) ==
    IF unavailable # False THEN unavailable
    ELSE IF unready # False THEN unready
    ELSE unable

(***************************************************************************)
(* The outcome of a doTask call                                            *)
(*   kind    "Size" (a size is returned), "FSError", "ValueError"          *)
(*   msg     the message of the FSError                                    *)
(*   size    the size returned                                             *)
(*   values  the values dictionary of FSSize.doTask when the call ended    *)
(*   scanned the number of lines of text the call looked at                *)
(*   runs    the number of times the call ran the external command         *)
(***************************************************************************)
NoValues == [count |-> None, size |-> None]

Raise(kind, msg) ==
    [kind |-> kind, msg |-> Some(msg), size |-> None,
     values |-> NoValues, scanned |-> 0, runs |-> 0, proc |-> None]

Return(sz) ==
    [kind |-> "Size", msg |-> None, size |-> Some(sz),
     values |-> NoValues, scanned |-> 0, runs |-> 0, proc |-> None]

NotCalled ==
    [kind |-> "none", msg |-> None, size |-> None,
     values |-> NoValues, scanned |-> 0, runs |-> 0, proc |-> None]

\* the outcome of a call that went through the lines of a text
Scanned(outcome, values, scanned) ==
    [outcome EXCEPT !.values = values, !.scanned = scanned]

\* the outcome of a call that ran the external command, which did proc
Ran(outcome, proc) ==
    [outcome EXCEPT !.runs = @ + 1, !.proc = Some(proc)]

(***************************************************************************)
(* FSSize                                                                  *)
(***************************************************************************)
FSSize_unavailable == False

FSSize_unready == False

\* Fault injection: unable with "if not self.fs._current_info", which takes
\* an empty text for an absent one.
FSSize_unable_falsy(current_info) ==
    IF current_info = None \/ current_info = Some(<<>>)
    THEN Message("No filesystem info available to extract current size from.")
    ELSE False

FSSize_unable(current_info) ==
    IF current_info = None
    THEN Message("No filesystem info available to extract current size from.")
    ELSE False

\* next((k for k in _tags if ...), None), matching the keys that satisfy
\* the condition
NextTag(matching) ==
    IF \E i \in 1..Len(_tags) : _tags[i] \in matching
    THEN Some(_tags[CHOOSE i \in 1..Len(_tags) :
                      /\ _tags[i] \in matching
                      /\ \A j \in 1..(i - 1) : _tags[j] \notin matching])
    ELSE None

\* Fault injection: the key whose tag occurs anywhere in the line.
LineKey_contains(cls, line) ==
    LET Contains(k) ==
            LET tag == tags(cls)[k]
            IN  \E i \in 1..(Len(line) - Len(tag) + 1) :
                   SubSeq(line, i, i + Len(tag) - 1) = tag
    IN  NextTag({ k \in {"count", "size"} : Contains(k) })

\* the key whose tag the (stripped) line starts with
LineKey(cls, line) ==
    NextTag({ k \in {"count", "size"} : startswith(line, tags(cls)[k]) })

\* Fault injection: a value of 0 when int() accepts no field.
RECURSIVE FirstInt_zero(_)
FirstInt_zero(fields) ==
    IF fields = <<>> THEN Some(0)
    ELSE IF IsIntLiteral(Head(fields)) THEN Some(int(Head(fields)))
    ELSE FirstInt_zero(Tail(fields))

\* "for field in fields: try: values[key] = int(field); break": the first
\* field of the list that int() accepts, None when it accepts none.
RECURSIVE FirstInt(_)
FirstInt(fields) ==
    IF fields = <<>> THEN None
    ELSE IF IsIntLiteral(Head(fields)) THEN Some(int(Head(fields)))
    ELSE FirstInt(Tail(fields))

\* Fault injection: the fields scanned without fields.reverse().
LastNumeric_unreversed(line) == FirstInt(split(line))

\* "Look for last numeric value in matching line"
LastNumeric(line) == FirstInt(reverse(split(line)))

\* Fault injection: "if values[key]", which takes 0 for unset.
IsResolved_truthy(value) == value # None /\ value # Some(0)

\* "values[key] is not None"
IsResolved(value) == value # None

\* The loop over the lines of the text: [dup, values, scanned], dup the key
\* matched a second time (the loop ends there) or None.
RECURSIVE ScanLines(_, _, _, _)
ScanLines(cls, lines, values, scanned) ==
    IF lines = <<>> THEN [dup |-> None, values |-> values, scanned |-> scanned]
    ELSE LET line == strip(Head(lines))
             key == LineKey(cls, line)
         IN  IF key = None
             THEN ScanLines(cls, Tail(lines), values, scanned + 1)
             ELSE IF IsResolved(values[Val(key)])
             THEN [dup |-> key, values |-> values, scanned |-> scanned + 1]
             ELSE ScanLines(cls, Tail(lines),
                            [values EXCEPT ![Val(key)] = LastNumeric(line)],
                            scanned + 1)

\* Fault injection: the last missing key instead of the first.
MissingKey_last(values) ==
    IF values["size"] = None THEN Some("size")
    ELSE IF values["count"] = None THEN Some("count")
    ELSE None

\* next((k for k in _tags if values[k] is None), None)
MissingKey(values) ==
    NextTag({ k \in {"count", "size"} : values[k] = None })

FSSize_doTask(cls, current_info) ==
    LET error_msg == impossible(FSSize_unavailable, FSSize_unready,
                                FSSize_unable(current_info))
    IN  IF error_msg # False
        THEN Raise("FSError", error_msg)
        ELSE
        LET scan == ScanLines(cls, splitlines(Val(current_info)), NoValues, 0)
            values == scan.values
            missing == MissingKey(values)
        IN  Scanned(
              IF scan.dup # None
              THEN Raise("FSError", Format("found two matches for key %s", Val(scan.dup)))
              ELSE IF missing # None
              THEN Raise("FSError", Format("Failed to parse info for %s.", Val(missing)))
              ELSE Return(SizeRMul(Val(values.count), Size(Val(values.size)))),
              values, scan.scanned)

(***************************************************************************)
(* TmpFSSize                                                               *)
(***************************************************************************)
app_name == "df"

TmpFSSize_unavailable(available) ==
    IF ~available THEN Format("application %s is not available", app_name)
    ELSE False

\* Fault injection: unready that never reports.
TmpFSSize_unready_never(fs_status) == False

TmpFSSize_unready(fs_status) ==
    IF ~fs_status THEN Message("filesystem is not mounted") ELSE False

TmpFSSize_unable == False

_sizeCommand(mountpoint) == <<app_name, mountpoint, "--output=size">>

Header == <<"1","K","-","b","l","o","c","k","s">>

\* Fault injection: "len(lines) < 2" in place of "len(lines) != 2".
ParseOutput_atLeastTwoLines(cmd, out) ==
    LET lines == splitlines(out)
    IN  Scanned(
          IF Len(lines) < 2 \/ strip(lines[1]) # Header
          THEN Raise("FSError", Format("Failed to parse output of command %s.", cmd))
          ELSE LET sz == SizeFromSpec(lines[2] \o <<" ">> \o UnitKiB)
               IN  IF sz = None
                   THEN Raise("ValueError", Message("invalid size specification"))
                   ELSE Return(Val(sz)),
          NoValues, Len(lines))

\* lines = out.splitlines() and what follows
ParseOutput(cmd, out) ==
    LET lines == splitlines(out)
    IN  Scanned(
          IF Len(lines) # 2 \/ strip(lines[1]) # Header
          THEN Raise("FSError", Format("Failed to parse output of command %s.", cmd))
          ELSE LET sz == SizeFromSpec(lines[2] \o <<" ">> \o UnitKiB)
               IN  IF sz = None
                   THEN Raise("ValueError", Message("invalid size specification"))
                   ELSE Return(Val(sz)),
          NoValues, Len(lines))

\* Fault injection: the exit status of the command not looked at.
RunCommand_ignoreRet(cmd, proc) ==
    Ran(IF ~proc.launched
        THEN Raise("FSError", Format("Failed to execute command %s.", cmd))
        ELSE ParseOutput(cmd, proc.out),
        proc)

\* The try block and what follows.  proc is what
\* util.run_program_and_capture_output does with the command: it raises
\* OSError (launched FALSE), or returns (ret, out).
RunCommand(cmd, proc) ==
    Ran(IF ~proc.launched
        THEN Raise("FSError", Format("Failed to execute command %s.", cmd))
        ELSE IF proc.ret # 0
        THEN Raise("FSError", Format("Failed to execute command %s.", cmd))
        ELSE ParseOutput(cmd, proc.out),
        proc)

\* Fault injection: impossible looked at after the command has run.
TmpFSSize_doTask_checkAfter(available, fs_status, mountpoint, proc) ==
    LET error_msg == impossible(TmpFSSize_unavailable(available),
                                TmpFSSize_unready(fs_status), TmpFSSize_unable)
        outcome == RunCommand(_sizeCommand(mountpoint), proc)
    IN  IF error_msg # False
        THEN Ran(Raise("FSError", error_msg), proc)
        ELSE outcome

TmpFSSize_doTask(available, fs_status, mountpoint, proc) ==
    LET error_msg == impossible(TmpFSSize_unavailable(available),
                                TmpFSSize_unready(fs_status), TmpFSSize_unable)
    IN  IF error_msg # False
        THEN Raise("FSError", error_msg)
        ELSE RunCommand(_sizeCommand(mountpoint), proc)

(***************************************************************************)
(* The inputs: the text the filesystem object holds, and what the external *)
(* command does                                                            *)
(***************************************************************************)
MaxLines == 3

RECURSIVE Concat(_)
Concat(parts) == IF parts = <<>> THEN <<>> ELSE Head(parts) \o Concat(Tail(parts))

\* Lines a report of the variant's tool may hold.  Of each tag: a line with
\* one number, with surrounding whitespace and a unit after the number; a
\* line with several numbers; a line with no number that stands alone.  And
\* lines of neither tag: one in which the count tag does not come first, and
\* the empty line.
InfoLines(cls) ==
    LET c == tags(cls).count
        s == tags(cls).size
    IN  { Concat(<<<<" ", " ">>, c, <<"\t", "3", " ", "k", "B", " ">>>>),
          Concat(<<c, <<" ", "2", " ", "1", "7">>>>),
          Concat(<<c, <<"7">>>>),
          Concat(<<s, <<" ", "4">>>>),
          Concat(<<<<"\t">>, s, <<" ", "0", " ", "b">>>>),
          Concat(<<s, <<" ", "5", " ", "x", " ", "-", "6", " ", "y", " ">>>>),
          Concat(<<s, <<" ", "k">>>>),
          Concat(<<<<"x", " ">>, c, <<" ", "9">>>>),
          <<>> }

RECURSIVE Texts(_, _)
Texts(cls, n) ==
    IF n = 0 THEN {<<>>}
    ELSE LET shorter == Texts(cls, n - 1)
         IN  shorter \cup { t \o l \o <<"\n">> : t \in shorter, l \in InfoLines(cls) }

Outputs ==
    { Concat(<<Header, <<"\n", "2", "0", "4", "8", "\n">>>>),
      Concat(<<Header, <<"\n", "2", "0", "4", "8">>>>),
      Concat(<<<<" ", " ">>, Header, <<" ", "\n", " ", " ", "1", "2", " ", "\n">>>>),
      Concat(<<<<"g", "a", "r", "b", "a", "g", "e">>, <<"\n", "1", "\n">>>>),
      Concat(<<Header, <<"s", "\n", "1", "\n">>>>),
      Concat(<<Header, <<"\n">>>>),
      Concat(<<Header, <<"\n", "7", "\n", "\n">>>>),
      Concat(<<Header, <<"\n", "7", "\n", "8", "\n">>>>),
      Concat(<<Header, <<"\n", "\n">>>>),
      Concat(<<Header, <<"\n", "-", "\n">>>>),
      <<"5", "\n">>,
      <<>> }

Rets == {0, 1, 2}

Procs ==
    [launched : {TRUE}, ret : Rets, out : Outputs]
        \cup [launched : {FALSE}, ret : {0}, out : {<<>>}]

Mountpoints == {"/mnt/tmp", "/run"}

(***************************************************************************)
(* The state machine: a task object bound to a filesystem object at        *)
(* construction, and calls of its doTask                                   *)
(***************************************************************************)
Init ==
    /\ task \in FSSizeClasses \cup {"TmpFSSize"}
    /\ IF task \in FSSizeClasses
       THEN /\ info \in {None} \cup { Some(t) : t \in Texts(task, MaxLines) }
            /\ status = FALSE
            /\ systemMountpoint = "None"
            /\ appAvailable = TRUE
       ELSE /\ info = None
            /\ status \in BOOLEAN
            /\ systemMountpoint \in (IF status THEN Mountpoints ELSE {"None"})
            /\ appAvailable \in BOOLEAN
    /\ result = NotCalled

DoFSSize ==
    /\ task \in FSSizeClasses
    /\ result' = FSSize_doTask(task, info)
    /\ UNCHANGED <<task, info, status, systemMountpoint, appAvailable>>

DoTmpFSSize ==
    /\ task = "TmpFSSize"
    /\ \E proc \in Procs :
          result' = TmpFSSize_doTask(appAvailable, status, systemMountpoint, proc)
    /\ UNCHANGED <<task, info, status, systemMountpoint, appAvailable>>

Next == DoFSSize \/ DoTmpFSSize

Spec == Init /\ [][Next]_vars

(***************************************************************************)
(* Properties of FSSize.doTask                                             *)
(***************************************************************************)
Keys == {"count", "size"}

Min(S) == CHOOSE x \in S : \A y \in S : x <= y
Max(S) == CHOOSE x \in S : \A y \in S : x >= y

\* a call of FSSize.doTask on a filesystem object that holds a text has ended
FSCalled == task \in FSSizeClasses /\ result.kind # "none" /\ info # None

\* the positions of the fields that are integers, in increasing order
RECURSIVE IntPositions(_, _)
IntPositions(fields, j) ==
    IF j > Len(fields) THEN <<>>
    ELSE (IF IsIntLiteral(fields[j]) THEN <<j>> ELSE <<>>) \o IntPositions(fields, j + 1)

\* What a line of the text says: the tags it starts with once trimmed, its
\* fields, the positions of the integers among them, and whether it has
\* surrounding whitespace.
LineView(raw) ==
    LET line == strip(raw)
        fields == split(line)
        ints == IntPositions(fields, 1)
    IN  [count |-> startswith(line, tags(task).count),
         size |-> startswith(line, tags(task).size),
         raw |-> raw,
         fields |-> fields,
         ints |-> ints,
         padded |-> raw # line]

RECURSIVE ViewOf(_)
ViewOf(lines) ==
    IF lines = <<>> THEN <<>> ELSE <<LineView(Head(lines))>> \o ViewOf(Tail(lines))

\* the view of the text of the filesystem object
TextView == ViewOf(splitlines(Val(info)))

\* the lines that start, once trimmed, with the tag of key k
TagLines(v, k) == { i \in 1..Len(v) : v[i][k] }

\* the lines that carry an integer field
IntLines(v) == { i \in 1..Len(v) : v[i].ints # <<>> }

\* the leftmost and the rightmost integer field of line i
LeftmostInt(v, i) == int(v[i].fields[v[i].ints[1]])
RightmostInt(v, i) == int(v[i].fields[v[i].ints[Len(v[i].ints)]])

\* the lines of key k reached when an earlier line of k carried an integer
Repeats(v, k) ==
    LET resolving == TagLines(v, k) \cap IntLines(v)
    IN  IF resolving = {} THEN {}
        ELSE { j \in TagLines(v, k) : j > Min(resolving) }

\* no line of key k carries an integer field
Unresolved(v, k) == TagLines(v, k) \cap IntLines(v) = {}

\* exactly one line per tag, each carrying an integer field
WellFormed(v) ==
    \A k \in Keys : /\ Cardinality(TagLines(v, k)) = 1
                    /\ TagLines(v, k) \subseteq IntLines(v)

TheLine(v, k) == CHOOSE i \in TagLines(v, k) : TRUE

\* the numeric field of the line of key k: the integer field that any extra
\* tokens follow
NumericField(v, k) == LeftmostInt(v, TheLine(v, k))

\* the tokens of the tag lines other than the numeric field are no integers
ExtraTokensNotIntegers(v) ==
    \A k \in Keys : \A i \in TagLines(v, k) : Len(v[i].ints) = 1

\* C1 as stated: a text with exactly one line per tag, each carrying an
\* integer field, yields count * size bytes, whatever irrelevant lines,
\* surrounding whitespace and extra tokens after the numeric field it has.
C1_AnyExtraTokens ==
    FSCalled =>
        LET v == TextView
        IN  WellFormed(v) =>
              /\ result.kind = "Size"
              /\ result.size =
                    Some([bytes |-> NumericField(v, "count") * NumericField(v, "size")])

\* C1 (amended): a text with exactly one line per tag, each carrying an
\* integer field, yields count * size bytes, whatever irrelevant lines,
\* surrounding whitespace and extra tokens after the numeric field it has,
\* provided the extra tokens do not parse as integers.
C1_CountTimesSize ==
    FSCalled =>
        LET v == TextView
        IN  (WellFormed(v) /\ ExtraTokensNotIntegers(v)) =>
              /\ result.kind = "Size"
              /\ result.size =
                    Some([bytes |-> NumericField(v, "count") * NumericField(v, "size")])

\* a size was returned for a text with an irrelevant line, a tag line with
\* surrounding whitespace and a non-integer token after the numeric field
C1_Witness ==
    /\ FSCalled
    /\ result.kind = "Size"
    /\ LET v == TextView
       IN  /\ WellFormed(v) /\ ExtraTokensNotIntegers(v)
           /\ \E i \in 1..Len(v) : ~v[i].count /\ ~v[i].size
           /\ \E k \in Keys : LET i == TheLine(v, k)
                              IN  v[i].padded /\ v[i].ints[1] < Len(v[i].fields)

\* C2 as stated: when two or more trimmed lines start with the same tag, the
\* call fails with an FSError whose message names that key, and returns no
\* size.
C2_AnyDuplicateFails ==
    FSCalled =>
        LET v == TextView
        IN  \A k \in Keys : Cardinality(TagLines(v, k)) >= 2 =>
              /\ result.kind = "FSError"
              /\ result.size = None
              /\ Val(result.msg)[2] = k

\* C2 (amended): when a line starting with a tag is reached after an earlier
\* line of the same tag carried an integer field, the call fails with the
\* FSError "found two matches for key" naming the key of the first such line,
\* and returns no size.
C2_ResolvedKeyRepeated ==
    FSCalled =>
        LET v == TextView
        IN  \A k \in Keys :
              (/\ Repeats(v, k) # {}
               /\ \A k2 \in Keys :
                     Repeats(v, k2) # {} => Min(Repeats(v, k)) <= Min(Repeats(v, k2)))
              => /\ result.kind = "FSError"
                 /\ result.size = None
                 /\ Val(result.msg) = Format("found two matches for key %s", k)

\* a call ended on a text in which the tag line of a resolved key recurs
C2_Witness ==
    /\ FSCalled
    /\ result.kind = "FSError"
    /\ LET v == TextView
       IN  \E k \in Keys : Repeats(v, k) # {}

\* C3 as stated: when no line starts with the tag of a key, the call fails
\* with an FSError whose message names that key, for each of count and size
\* and also when the lines of both are absent.
C3_AbsentKeyNamed ==
    FSCalled =>
        LET v == TextView
        IN  \A k \in Keys : TagLines(v, k) = {} =>
              /\ result.kind = "FSError"
              /\ Val(result.msg)[2] = k

\* the first key, in the order count, size, that no line resolves
FirstUnresolved(v) == IF Unresolved(v, "count") THEN "count" ELSE "size"

\* C3 (amended): when no line starts with the tag of a key, the call fails
\* with an FSError and returns no size; unless the other key's line recurs
\* after resolving it, the message is "Failed to parse info for" naming the
\* first unresolved key in the order count, size.
C3_AbsentKeyFails ==
    FSCalled =>
        LET v == TextView
        IN  \A k \in Keys : TagLines(v, k) = {} =>
              /\ result.kind = "FSError"
              /\ result.size = None
              /\ (\A k2 \in Keys : Repeats(v, k2) = {}) =>
                    Val(result.msg) =
                        Format("Failed to parse info for %s.", FirstUnresolved(v))

\* a call ended on a text that has a line resolving one key and no line of
\* the other tag
C3_Witness ==
    /\ FSCalled
    /\ result.kind = "FSError"
    /\ LET v == TextView
       IN  /\ \E k \in Keys : TagLines(v, k) = {}
           /\ \E k \in Keys : ~Unresolved(v, k)

\* C9: the value resolved for a key is the rightmost integer field of the
\* first line of its tag that carries an integer field: fields after it are
\* no integers and integer fields before it are ignored.
C9_RightmostInteger ==
    FSCalled =>
        LET v == TextView
        IN  \A k \in Keys : result.values[k] # None =>
              /\ ~Unresolved(v, k)
              /\ result.values[k] =
                    Some(RightmostInt(v, Min(TagLines(v, k) \cap IntLines(v))))

\* a value was resolved from a line with an integer field, left of the one
\* taken, and a non-integer field, right of it
C9_Witness ==
    /\ FSCalled
    /\ LET v == TextView
       IN  \E k \in Keys : \E i \in TagLines(v, k) :
              /\ Len(v[i].ints) >= 2
              /\ v[i].ints[Len(v[i].ints)] < Len(v[i].fields)
              /\ result.values[k] = Some(RightmostInt(v, i))

\* the text without the lines that start with a tag, carry no integer field
\* and are reached with their key unresolved
RECURSIVE WithoutUnparsedTagLines(_, _)
WithoutUnparsedTagLines(v, i) ==
    IF i > Len(v) THEN <<>>
    ELSE (IF \A k \in Keys : v[i][k] => (v[i].ints # <<>> \/ i \in Repeats(v, k))
          THEN v[i].raw \o <<"\n">>
          ELSE <<>>) \o WithoutUnparsedTagLines(v, i + 1)

\* the call ends as it does on the text without the lines that start with a
\* tag and resolve nothing; it raises the duplicate-key error only for a key
\* that a line had resolved; it returns a size only with both keys resolved
UnparsedLinesAsIfAbsent(v) ==
    /\ LET other == FSSize_doTask(task, Some(WithoutUnparsedTagLines(v, 1)))
       IN  /\ result.kind = other.kind
           /\ result.msg = other.msg
           /\ result.size = other.size
           /\ result.values = other.values
    /\ (result.kind = "FSError" /\ Val(result.msg)[1] = "found two matches for key %s")
          => Repeats(v, Val(result.msg)[2]) # {}
    /\ result.kind = "Size" =>
          \A k \in Keys : ~Unresolved(v, k) /\ result.values[k] # None

\* C10 as stated: a line that starts with a tag and has no integer field
\* leaves the key unresolved, as if the line were absent: a later line of the
\* tag resolves the key without a duplicate-key error, and when none does the
\* call fails with the missing-key error for that key; a size is returned
\* only with both keys resolved.
C10_MissingErrorForThatKey ==
    FSCalled =>
        LET v == TextView
        IN  /\ UnparsedLinesAsIfAbsent(v)
            /\ \A k \in Keys : (TagLines(v, k) # {} /\ Unresolved(v, k)) =>
                  /\ result.kind = "FSError"
                  /\ Val(result.msg) = Format("Failed to parse info for %s.", k)

\* C10 (amended): a line that starts with a tag and has no integer field
\* leaves the key unresolved, as if the line were absent: a later line of the
\* tag resolves the key without a duplicate-key error, and when none does the
\* call fails, unless the other key's line recurs after resolving it, with
\* the missing-key error naming the first unresolved key in the order count,
\* size; a size is returned only with both keys resolved.
C10_UnparsedLineIgnored ==
    FSCalled =>
        LET v == TextView
        IN  /\ UnparsedLinesAsIfAbsent(v)
            /\ \A k \in Keys : (TagLines(v, k) # {} /\ Unresolved(v, k)) =>
                  /\ result.kind = "FSError"
                  /\ result.size = None
                  /\ (\A k2 \in Keys : Repeats(v, k2) = {}) =>
                        Val(result.msg) =
                            Format("Failed to parse info for %s.", FirstUnresolved(v))

\* a size was returned for a text in which a line of a tag without an
\* integer field comes before the line that resolves the key
C10_Witness ==
    /\ FSCalled
    /\ result.kind = "Size"
    /\ LET v == TextView
       IN  \E k \in Keys : \E i, j \in TagLines(v, k) :
              i < j /\ v[i].ints = <<>> /\ v[j].ints # <<>>

(***************************************************************************)
(* Properties of the readiness contract and of TmpFSSize.doTask            *)
(***************************************************************************)
Called == result.kind # "none"

\* the call did nothing but raise: no line looked at, no command run
NoWorkDone ==
    /\ result.size = None
    /\ result.values = NoValues
    /\ result.scanned = 0
    /\ result.runs = 0
    /\ result.proc = None

\* C4: without a text unable is a message and the call fails with an FSError
\* before it splits or parses any line; with a text, unable, unready and
\* unavailable are all clear.
C4_NoInfoUnable ==
    task \in FSSizeClasses =>
        /\ info = None =>
              /\ FSSize_unable(info) # False
              /\ Called => (result.kind = "FSError" /\ NoWorkDone)
        /\ info # None =>
              /\ FSSize_unable(info) = False
              /\ FSSize_unready = False
              /\ FSSize_unavailable = False

\* a call ended on a filesystem object without a text
C4_Witness ==
    /\ task \in FSSizeClasses
    /\ info = None
    /\ result.kind = "FSError"

\* the three readiness messages of the task object, in priority order
Readiness ==
    IF task \in FSSizeClasses
    THEN <<FSSize_unavailable, FSSize_unready, FSSize_unable(info)>>
    ELSE <<TmpFSSize_unavailable(appAvailable), TmpFSSize_unready(status), TmpFSSize_unable>>

NonEmpty == { i \in 1..3 : Readiness[i] # False }

\* C5: impossible is non-empty iff one of unavailable, unready, unable is,
\* and is the first non-empty of them in that order; when it is non-empty
\* doTask fails with an FSError carrying that message and does nothing else.
C5_ImpossibleFirst ==
    LET imp == impossible(Readiness[1], Readiness[2], Readiness[3])
    IN  /\ (imp # False) <=> (NonEmpty # {})
        /\ NonEmpty # {} => imp = Readiness[Min(NonEmpty)]
        /\ (Called /\ NonEmpty # {}) =>
              /\ result.kind = "FSError"
              /\ result.msg = Some(Readiness[Min(NonEmpty)])
              /\ NoWorkDone

\* a call ended on a task that was both unavailable and unready
C5_Witness ==
    /\ Called
    /\ Cardinality(NonEmpty) >= 2

\* C6: on a filesystem that is not mounted unready is a message and the call
\* fails without running the command; every call runs the command at most
\* once, and exactly once when the task is not impossible.
C6_UnmountedNoProcess ==
    task = "TmpFSSize" =>
        /\ ~status =>
              /\ TmpFSSize_unready(status) # False
              /\ Called => (result.kind = "FSError" /\ result.runs = 0 /\ result.proc = None)
        /\ Called =>
              /\ result.runs <= 1
              /\ (result.runs = 1) <=> (NonEmpty = {})

\* a call ended on a filesystem that is not mounted, with df available
C6_Witness ==
    /\ task = "TmpFSSize"
    /\ Called
    /\ ~status
    /\ appAvailable

\* the call ran the command
CommandRun == task = "TmpFSSize" /\ Called /\ result.proc # None

TheCommand == <<"df", systemMountpoint, "--output=size">>

\* C7: when the command cannot be started or exits with a non-zero status
\* the call fails with an FSError naming the command, whatever the output;
\* the output is not parsed and no size is returned.
C7_CommandFailure ==
    (CommandRun /\ (~Val(result.proc).launched \/ Val(result.proc).ret # 0)) =>
        /\ result.kind = "FSError"
        /\ Val(result.msg) = Format("Failed to execute command %s.", TheCommand)
        /\ result.size = None
        /\ result.scanned = 0

OutLines == splitlines(Val(result.proc).out)

\* the output has exactly two lines and the first, trimmed, is the header
TwoLinesWithHeader == Len(OutLines) = 2 /\ strip(OutLines[1]) = Header

\* the command failed with an output that has the expected shape
C7_Witness ==
    /\ CommandRun
    /\ Val(result.proc).launched
    /\ Val(result.proc).ret # 0
    /\ TwoLinesWithHeader
    /\ IsIntLiteral(strip(OutLines[2]))
    /\ result.kind = "FSError"

\* the command exited with status 0
CommandSucceeded ==
    CommandRun /\ Val(result.proc).launched /\ Val(result.proc).ret = 0

====
